---- MODULE Spec2Model ----
(***************************************************************************)
(* Model of the result fusion pipeline: ResultComparator                   *)
(* (processing/comparison.py) and EnsembleProcessor                        *)
(* (processing/processors/ensemble_processor.py).                          *)
(* TextCurator (processing/curation/text_curator.py) is modelled in a      *)
(* section of its own further down, with its own representation of str.    *)
(*                                                                         *)
(* Representation.                                                         *)
(*   - A Python dict is a function whose DOMAIN is its key set, so         *)
(*     `"error" in result` is  "error" \in DOMAIN result.                  *)
(*   - A Python str is a run-length encoded sequence of runs [c, n]        *)
(*     (character c repeated n >= 1 times); the empty string is << >>.     *)
(*     len(), split() and join() are computed on that encoding, which      *)
(*     lets a text of tens of thousands of characters be a short value.    *)
(*   - score is kept in thousandths (the code's score times 1000), so      *)
(*     that text_length / 1000 stays an integer quantity.                  *)
(***************************************************************************)
EXTENDS Integers, Sequences, FiniteSets, Bags, TLC

VARIABLES
    results,          \* the list of results being collected, compared or merged
    comparison,       \* what compare_results returned
    ensemble_result,  \* what _combine_results returned, as process goes on changing it
    base_result,      \* process: the base parser's result
    ai_result,        \* process: the DocumentAIProcessor's result
    file_type,        \* process: the declared type of the document
    processors,       \* process: self.processors
    pc,               \* position of the caller
    raw_text,         \* curator: the text handed to clean_text / assess_quality
    cleaning,         \* curator: what clean_text(raw_text) returned
    recleaning,       \* curator: what clean_text returned for its own output
    quality,          \* curator: what assess_quality(raw_text) returned
    other_text,       \* curator: a second text, with more words
    other_quality,    \* curator: what assess_quality(other_text) returned
    langdetect_available,  \* curator: LANGDETECT_AVAILABLE
    enable,           \* curator: the three enable_ flags given to curate_text
    detector_outcome, \* curator: what the language detector did, if called
    language,         \* curator: what detect_language(raw_text) returned
    curation,         \* curator: what curate_text(raw_text, ...) returned
    texts,            \* curator: the list given to deduplicate_texts
    method,           \* curator: the method given to deduplicate_texts
    embedding,        \* curator: the embedding capability and what it finds near
    dedup             \* curator: what deduplicate_texts returned

fusion_vars == <<results, comparison, ensemble_result, base_result, ai_result,
                 file_type, processors>>

text_vars == <<raw_text, cleaning, recleaning, quality, other_text, other_quality>>

language_vars == <<langdetect_available, enable, detector_outcome, language, curation>>

dedup_vars == <<texts, method, embedding, dedup>>

curator_vars == <<text_vars, language_vars, dedup_vars>>

vars == <<fusion_vars, curator_vars, pc>>

\* Largest number of results handed to one comparison.
MaxResults == 2

\* Value of a variable that holds nothing yet (Python: not assigned).
None == [none |-> TRUE]

\* no text is being cleaned or assessed
TextIdle ==
    /\ raw_text = << >>
    /\ cleaning = None
    /\ recleaning = None
    /\ quality = None
    /\ other_text = << >>
    /\ other_quality = None

\* no language detection or curation is going on
LanguageIdle ==
    /\ langdetect_available = FALSE
    /\ enable = None
    /\ detector_outcome = None
    /\ language = None
    /\ curation = None

\* no deduplication is going on
DedupIdle ==
    /\ texts = << >>
    /\ method = "exact"
    /\ embedding = None
    /\ dedup = None

\* no TextCurator call has been made
CuratorIdle == TextIdle /\ LanguageIdle /\ DedupIdle

----------------------------------------------------------------------------
\* Python strings, run-length encoded.

Run(c, n) == [c |-> c, n |-> n]

EmptyStr == << >>

\* str.isspace() on one character
IsSpace(c) == c \in {" ", "\n"}

RECURSIVE StrLen(_)
\* len(text)
StrLen(t) == IF t = << >> THEN 0 ELSE Head(t).n + StrLen(Tail(t))

\* len(text.split()): the number of maximal runs of non-whitespace
WordCount(t) ==
    Cardinality({i \in 1..Len(t) :
                    /\ ~IsSpace(t[i].c)
                    /\ (i = 1 \/ IsSpace(t[i-1].c))})

RECURSIVE Join(_, _)
\* sep.join(parts)
Join(sep, parts) ==
    IF parts = << >> THEN EmptyStr
    ELSE IF Len(parts) = 1 THEN parts[1]
    ELSE parts[1] \o sep \o Join(sep, Tail(parts))

\* dict.get(key, default)
Get(d, k, default) == IF k \in DOMAIN d THEN d[k] ELSE default

\* [f(x) for x in s]  is written  [i \in 1..Len(s) |-> f(s[i])]
RECURSIVE SelectNamesReversed(_, _)
\* SelectNames collecting the names back to front
SelectNamesReversed(metrics, flag) ==
    IF metrics = << >> THEN << >>
    ELSE SelectNamesReversed(Tail(metrics), flag)
         \o (IF Head(metrics)[flag] THEN <<Head(metrics).processor>> ELSE << >>)

RECURSIVE SelectNames(_, _)
\* [m["processor"] for m in metrics if m[flag]]
SelectNames(metrics, flag) ==
    IF metrics = << >> THEN << >>
    ELSE (IF Head(metrics)[flag] THEN <<Head(metrics).processor>> ELSE << >>)
         \o SelectNames(Tail(metrics), flag)

----------------------------------------------------------------------------
\* json.dumps of a list of lists of strings, as compare_results applies it
\* to [sheet.get("data", []) for sheet in sheets].

Quote == <<Run("\"", 1)>>

\* json.dumps(str) for a string that needs no escaping
JsonStr(s) == Quote \o s \o Quote

\* json.dumps(list) given the serialised items: "[" + ", ".join(items) + "]"
JsonList(items) ==
    <<Run("[", 1)>> \o Join(<<Run(",", 1), Run(" ", 1)>>, items) \o <<Run("]", 1)>>

JsonDumps(datas) ==
    JsonList([i \in 1..Len(datas) |->
                JsonList([j \in 1..Len(datas[i]) |-> JsonStr(datas[i][j])])])

----------------------------------------------------------------------------
\* ResultComparator (processing/comparison.py)

\* f"processor_{i}", i the 0-based position (the model's sequences are 1-based)
DefaultName(i) == "processor_" \o ToString(i - 1)

\* result.get("parser") or result.get("processor", default)
ProcessorName(result, default) ==
    IF Get(result, "parser", "") # "" THEN result["parser"]
    ELSE Get(result, "processor", default)

\* ExtractText never looking at the sheets
ExtractTextNoSheets(result) ==
    LET text0 == Get(result, "text", EmptyStr)
        pages == Get(result, "pages", << >>)
    IN  IF text0 = EmptyStr /\ pages # << >>
        THEN Join(<<Run("\n", 1)>>,
                  [i \in 1..Len(pages) |-> Get(pages[i], "text", EmptyStr)])
        ELSE text0

\* the text compare_results measures for one result
ExtractText(result) ==
    LET text0 == Get(result, "text", EmptyStr)
        pages == Get(result, "pages", << >>)
        text1 == IF text0 = EmptyStr /\ pages # << >>
                 THEN Join(<<Run("\n", 1)>>,
                           [i \in 1..Len(pages) |-> Get(pages[i], "text", EmptyStr)])
                 ELSE text0
        sheets == Get(result, "sheets", << >>)
    IN  IF text1 = EmptyStr /\ sheets # << >>
        THEN JsonDumps([i \in 1..Len(sheets) |-> Get(sheets[i], "data", << >>)])
        ELSE text1

\* one entry of comparison_metrics
Metric(result, text, i) ==
    [processor       |-> ProcessorName(result, DefaultName(i)),
     text_length     |-> StrLen(text),
     word_count      |-> IF text # EmptyStr THEN WordCount(text) ELSE 0,
     has_errors      |-> "error" \in DOMAIN result,
     has_tables      |-> \/ Len(Get(result, "tables", << >>)) > 0
                         \/ Len(Get(result, "sheets", << >>)) > 0,
     has_metadata    |-> "metadata" \in DOMAIN result /\ DOMAIN result["metadata"] # {},
     processing_time |-> Get(result, "processing_time", 0)]

\* Metrics leaving the failed engines out when another engine succeeded
MetricsValidOnly(rs) ==
    LET valid == SelectSeq(rs, LAMBDA r : "error" \notin DOMAIN r)
        kept  == IF valid = << >> THEN rs ELSE valid
    IN  [i \in 1..Len(kept) |-> Metric(kept[i], ExtractText(kept[i]), i)]

\* the metrics list built by compare_results
Metrics(rs) == [i \in 1..Len(rs) |-> Metric(rs[i], ExtractText(rs[i]), i)]

\* max(m.get("text_length", 0) for m in metrics), metrics non-empty
MaxTextLength(metrics) ==
    CHOOSE n \in {metrics[i].text_length : i \in 1..Len(metrics)} :
        \A i \in 1..Len(metrics) : metrics[i].text_length <= n

\* next((m["processor"] for m in metrics if m["text_length"] == max_text), None)
BestTextProcessor(metrics) ==
    LET max_text == MaxTextLength(metrics)
        first == CHOOSE i \in 1..Len(metrics) :
                    /\ metrics[i].text_length = max_text
                    /\ \A j \in 1..(i-1) : metrics[j].text_length # max_text
    IN  metrics[first].processor

\* A recommendation is kept as the data its sentence is formatted from:
\* the kind of sentence and the processor names it lists.
GenerateRecommendations(metrics) ==
    LET best_text_processor == BestTextProcessor(metrics)
        error_processors    == SelectNames(metrics, "has_errors")
        table_processors    == SelectNames(metrics, "has_tables")
        metadata_processors == SelectNames(metrics, "has_metadata")
    IN  (IF best_text_processor # ""
         THEN <<[kind |-> "most_text", processors |-> <<best_text_processor>>,
                 chars |-> MaxTextLength(metrics)]>>
         ELSE << >>)
        \o (IF error_processors # << >>
            THEN <<[kind |-> "errors", processors |-> error_processors]>> ELSE << >>)
        \o (IF table_processors # << >>
            THEN <<[kind |-> "tables", processors |-> table_processors]>> ELSE << >>)
        \o (IF metadata_processors # << >>
            THEN <<[kind |-> "metadata", processors |-> metadata_processors]>> ELSE << >>)

\* Score without the penalty for errors
ScoreNoPenalty(metric) ==
    metric.text_length
    + (IF metric.has_tables THEN 10000 ELSE 0)
    + (IF metric.has_metadata THEN 5000 ELSE 0)

\* the score of one metric, in thousandths.  The code computes it in floating
\* point; for the text lengths of this model every sum and every comparison
\* of two scores comes out as in exact arithmetic.
Score(metric) ==
    metric.text_length
    + (IF metric.has_tables THEN 10000 ELSE 0)
    + (IF metric.has_metadata THEN 5000 ELSE 0)
    - (IF metric.has_errors THEN 50000 ELSE 0)

\* the scored list before sorting
Scored(metrics) ==
    [i \in 1..Len(metrics) |->
        [processor |-> metrics[i].processor,
         score     |-> Score(metrics[i]),
         metrics   |-> metrics[i]]]

RECURSIVE InsertDescUnstable(_, _)
\* InsertDesc putting x in front of the elements that have its score
InsertDescUnstable(sorted, x) ==
    IF sorted = << >> THEN <<x>>
    ELSE IF Head(sorted).score > x.score
         THEN <<Head(sorted)>> \o InsertDescUnstable(Tail(sorted), x)
         ELSE <<x>> \o sorted

RECURSIVE InsertDesc(_, _)
\* x goes behind every element whose score is at least its own
InsertDesc(sorted, x) ==
    IF sorted = << >> THEN <<x>>
    ELSE IF Head(sorted).score >= x.score
         THEN <<Head(sorted)>> \o InsertDesc(Tail(sorted), x)
         ELSE <<x>> \o sorted

RECURSIVE SortDesc(_)
\* scored.sort(key=lambda x: x["score"], reverse=True): stable, descending
SortDesc(scored) ==
    IF scored = << >> THEN << >>
    ELSE InsertDesc(SortDesc(SubSeq(scored, 1, Len(scored) - 1)), scored[Len(scored)])

FindBestProcessor(metrics) ==
    IF metrics = << >> THEN << >>
    ELSE SortDesc(Scored(metrics))[1]

CompareResults(rs) ==
    IF rs = << >> THEN [error |-> "No results to compare"]
    ELSE LET metrics == Metrics(rs)
         IN  [total_processors   |-> Len(rs),
              processors         |-> [i \in 1..Len(rs) |-> ProcessorName(rs[i], "unknown")],
              comparison_metrics |-> metrics,
              recommendations    |-> GenerateRecommendations(metrics),
              best_processor     |-> FindBestProcessor(metrics)]

----------------------------------------------------------------------------
\* DocumentAIProcessor and EnsembleProcessor (processing/processors)

\* " ".join(text.split()): whitespace runs between words become one space,
\* leading and trailing whitespace disappears
NormalizeSpaces(t) ==
    Join(EmptyStr,
         [i \in 1..Len(t) |->
            IF ~IsSpace(t[i].c) THEN <<t[i]>>
            ELSE IF /\ i > 1
                    /\ ~IsSpace(t[i-1].c)
                    /\ \E j \in (i+1)..Len(t) : ~IsSpace(t[j].c)
                 THEN <<Run(" ", 1)>>
                 ELSE EmptyStr])

\* self.processors of an EnsembleProcessor built without arguments
DefaultProcessors == <<"pdf_parser", "document_ai">>

\* BaseProcessor.parse_document when get_parser finds no parser
NoParserResult(ft) ==
    [error     |-> "No parser available for file type",
     file_path |-> "doc",
     file_type |-> ft]

\* DocumentAIProcessor.process applied to what its parse_document returned.
\* Of the keys it adds, cleaned_text and the sentence and reading-time
\* statistics are left out: nothing in the ensemble or the comparator reads them.
DocumentAIProcess(parsed_result) ==
    IF "error" \in DOMAIN parsed_result THEN parsed_result
    ELSE LET named == [processor |-> "document_ai"]
                      @@ (IF "parser" \in DOMAIN parsed_result
                          THEN [original_parser |-> parsed_result["parser"]]
                          ELSE << >>)
                      @@ [ai_processing |-> [model |-> "None",
                                             enhancement_type |-> "basic",
                                             processed |-> TRUE]]
             text == Get(parsed_result, "text", EmptyStr)
         IN  IF text # EmptyStr
             THEN [text       |-> NormalizeSpaces(text),
                   statistics |-> [total_characters |-> StrLen(text),
                                   total_words      |-> WordCount(text)]]
                  @@ named @@ parsed_result
             ELSE named @@ parsed_result

\* the separator between the texts of combined_text: "\n\n---\n\n"
Separator == <<Run("\n", 2), Run("-", 3), Run("\n", 2)>>

\* NonEmptyTexts keeping the empty texts too
AllTexts(rs) == [i \in 1..Len(rs) |-> Get(rs[i], "text", EmptyStr)]

RECURSIVE NonEmptyTexts(_)
\* the list `texts` of _combine_results
NonEmptyTexts(rs) ==
    IF rs = << >> THEN << >>
    ELSE (IF Get(Head(rs), "text", EmptyStr) # EmptyStr
          THEN <<Head(rs)["text"]>> ELSE << >>)
         \o NonEmptyTexts(Tail(rs))

\* Update keeping the value a key already has
UpdateKeepOld(old, new) == old @@ new

\* dict.update: the keys of `new` overwrite those of `old`
Update(old, new) == new @@ old

RECURSIVE CombineMetadata(_)
CombineMetadata(rs) ==
    IF rs = << >> THEN << >>
    ELSE LET last == rs[Len(rs)]
             before == CombineMetadata(SubSeq(rs, 1, Len(rs) - 1))
         IN  IF "metadata" \in DOMAIN last THEN Update(before, last["metadata"])
             ELSE before

RECURSIVE ExtendAllSecondFirst(_, _, _)
\* ExtendAll taking result[k2] before result[k1]
ExtendAllSecondFirst(rs, k1, k2) ==
    IF rs = << >> THEN << >>
    ELSE Get(Head(rs), k2, << >>) \o Get(Head(rs), k1, << >>)
         \o ExtendAllSecondFirst(Tail(rs), k1, k2)

RECURSIVE ExtendAll(_, _, _)
\* for result in results: extend by result[k1] if present, then result[k2] if present
ExtendAll(rs, k1, k2) ==
    IF rs = << >> THEN << >>
    ELSE Get(Head(rs), k1, << >>) \o Get(Head(rs), k2, << >>)
         \o ExtendAll(Tail(rs), k1, k2)

\* CombineResults taking the empty list for a valid, empty merge
CombineResultsNoGuard(rs) ==
    [ensemble_result   |-> TRUE,
     source_results    |-> Len(rs),
     combined_text     |-> Join(Separator, NonEmptyTexts(rs)),
     combined_metadata |-> CombineMetadata(rs),
     all_tables        |-> ExtendAll(rs, "tables", "sheets"),
     all_pages         |-> ExtendAll(rs, "pages", "slides")]

CombineResults(rs) ==
    IF rs = << >> THEN [error |-> "No results to combine"]
    ELSE [ensemble_result   |-> TRUE,
          source_results    |-> Len(rs),
          combined_text     |-> Join(Separator, NonEmptyTexts(rs)),
          combined_metadata |-> CombineMetadata(rs),
          all_tables        |-> ExtendAll(rs, "tables", "sheets"),
          all_pages         |-> ExtendAll(rs, "pages", "slides")]

----------------------------------------------------------------------------
\* The results the engines hand over.  Every parser result carries file_path;
\* the other keys are present or absent independently, and a result that
\* carries `error` keeps whatever the parser had collected before it failed.

Base == [file_path |-> "doc"]

SmallText == <<Run("a", 1), Run(" ", 1), Run("a", 1)>>
BigText == <<Run("a", 60000)>>
ATable == <<<<"h">>, <<"c">>>>

Absent == [k \in {} |-> TRUE]

NameParts == {Absent, [parser |-> "pdf_parser"]}
ErrorParts == {Absent, [error |-> "Failed to parse"]}
TableParts == {Absent, [tables |-> <<ATable>>]}
MetadataParts == {Absent, [metadata |-> Absent], [metadata |-> [method |-> "pdfplumber"]]}
TextParts == {Absent, [text |-> SmallText], [text |-> BigText]}

\* results that differ in everything the score reads
ScoringShapes ==
    {Base @@ n @@ e @@ tb @@ md @@ tx :
        n \in NameParts, e \in ErrorParts, tb \in TableParts,
        md \in MetadataParts, tx \in TextParts}

PageParts ==
    {Absent,
     [pages |-> << >>],
     [pages |-> <<[page_number |-> 1]>>],
     [pages |-> <<[page_number |-> 1, text |-> EmptyStr]>>],
     [pages |-> <<[page_number |-> 1, text |-> SmallText], [page_number |-> 2]>>],
     [pages |-> <<[page_number |-> 1, text |-> EmptyStr],
                  [page_number |-> 2, text |-> EmptyStr]>>]}

SheetParts ==
    {Absent,
     [sheets |-> << >>],
     [sheets |-> <<[sheet_name |-> "s"]>>],
     [sheets |-> <<[sheet_name |-> "s", data |-> <<SmallText, EmptyStr>>],
                   [sheet_name |-> "t", data |-> << >>]>>]}

\* results that differ in where their text is to be found
ContentShapes ==
    {Base @@ tx @@ pg @@ sh :
        tx \in {Absent, [text |-> EmptyStr], [text |-> SmallText]},
        pg \in PageParts, sh \in SheetParts}

----------------------------------------------------------------------------
\* A caller collects results and hands the list to the comparator or to the
\* merger (frontend/streamlit_app.py collects them this way).

InitCollect ==
    /\ results = << >>
    /\ comparison = None
    /\ ensemble_result = None
    /\ base_result = None
    /\ ai_result = None
    /\ file_type = "pdf"
    /\ processors = DefaultProcessors
    /\ pc = "collect"
    /\ CuratorIdle

EngineResult(r) ==
    /\ pc = "collect"
    /\ Len(results) < MaxResults
    /\ results' = Append(results, r)
    /\ UNCHANGED <<comparison, ensemble_result, base_result, ai_result,
                   file_type, processors, pc>>
    /\ UNCHANGED curator_vars

Compare ==
    /\ pc = "collect"
    /\ comparison' = CompareResults(results)
    /\ pc' = "compared"
    /\ UNCHANGED <<results, ensemble_result, base_result, ai_result,
                   file_type, processors>>
    /\ UNCHANGED curator_vars

\* the merge of the same list, whether or not it was compared first
Combine ==
    /\ pc \in {"collect", "compared"}
    /\ ensemble_result' = CombineResults(results)
    /\ pc' = "combined"
    /\ UNCHANGED <<results, comparison, base_result, ai_result,
                   file_type, processors>>
    /\ UNCHANGED curator_vars

ScoringEngine == \E r \in ScoringShapes : EngineResult(r)

ContentEngine == \E r \in ContentShapes : EngineResult(r)

Next == ScoringEngine \/ Compare \/ Combine

Spec == InitCollect /\ [][Next]_vars

NextExtract == ContentEngine \/ Compare \/ Combine

SpecExtract == InitCollect /\ [][NextExtract]_vars

----------------------------------------------------------------------------
\* Results that differ in what _combine_results merges: texts that are
\* missing, empty, equal or different, metadata with shared and unshared
\* keys, and the four kinds of container.

OtherText == <<Run("b", 2)>>
BTable == <<<<"x", "y">>>>

MergeTextParts ==
    {Absent, [text |-> EmptyStr], [text |-> SmallText], [text |-> OtherText]}

MergeMetadataParts ==
    {Absent,
     [metadata |-> Absent],
     [metadata |-> [method |-> "pdfplumber"]],
     [metadata |-> [method |-> "PyPDF2", total_pages |-> 1]],
     [metadata |-> [total_pages |-> 2]]}

MergeTableParts == {Absent, [tables |-> <<ATable, BTable>>], [tables |-> <<BTable>>]}

MergeSheetParts == {Absent, [sheets |-> <<[sheet_name |-> "s", data |-> << >>]>>]}

MergePageParts ==
    {Absent,
     [pages |-> <<[page_number |-> 1, text |-> SmallText],
                  [page_number |-> 2, text |-> EmptyStr]>>],
     [pages |-> <<[page_number |-> 2, text |-> EmptyStr]>>]}

MergeSlideParts == {Absent, [slides |-> <<[slide_number |-> 1, text |-> OtherText]>>]}

MergeShapes ==
    {Base @@ tx @@ md : tx \in MergeTextParts, md \in MergeMetadataParts}
    \cup
    {Base @@ tb @@ sh @@ pg @@ sl :
        tb \in MergeTableParts, sh \in MergeSheetParts,
        pg \in MergePageParts, sl \in MergeSlideParts}

MergeEngine == \E r \in MergeShapes : EngineResult(r)

NextMerge == MergeEngine \/ Combine

SpecMerge == InitCollect /\ [][NextMerge]_vars

----------------------------------------------------------------------------
\* EnsembleProcessor.process(file_path, file_type), one action per statement.

FileTypes == {"pdf", "excel", "text"}

\* what the parser registered for a file type can return (parsers/pdf_parser.py,
\* parsers/excel_parser.py); the type "text" has no parser
ParserOutcomes(ft) ==
    IF ft = "pdf" THEN
        {[file_path |-> "doc", parser |-> "pdf_parser", metadata |-> md,
          pages |-> pg, text |-> tx] @@ e :
            md \in {Absent, [method |-> "pdfplumber"]},
            pg \in {<< >>, <<[page_number |-> 1, text |-> SmallText, tables |-> << >>]>>},
            tx \in {EmptyStr, SmallText, <<Run(" ", 1), Run("a", 2), Run("\n", 2), Run("a", 1)>>},
            e \in ErrorParts}
    ELSE IF ft = "excel" THEN
        {[file_path |-> "doc", parser |-> "excel_parser", metadata |-> md,
          sheets |-> sh] @@ e :
            md \in {Absent, [total_sheets |-> 1]},
            sh \in {<< >>, <<[sheet_name |-> "s", data |-> <<SmallText>>]>>},
            e \in ErrorParts}
    ELSE { }

\* BaseProcessor.parse_document: the outcomes of one call
ParseDocument(ft) ==
    IF ParserOutcomes(ft) # { } THEN ParserOutcomes(ft) ELSE {NoParserResult(ft)}

\* AppendIfValid without the test for `error`
AppendAlways(rs, r) == Append(rs, r)

\* if "error" not in r: results.append(r)
AppendIfValid(rs, r) == IF "error" \notin DOMAIN r THEN Append(rs, r) ELSE rs

InitProcess ==
    /\ results = << >>
    /\ comparison = None
    /\ ensemble_result = None
    /\ base_result = None
    /\ ai_result = None
    /\ file_type \in FileTypes
    /\ processors \in {DefaultProcessors, <<"pdf_parser">>}
    /\ pc = "start"
    /\ CuratorIdle

ParseBase ==
    /\ pc = "start"
    /\ \E r \in ParseDocument(file_type) :
          /\ base_result' = r
          /\ results' = AppendIfValid(results, r)
    /\ pc' = "base_done"
    /\ UNCHANGED <<comparison, ensemble_result, ai_result, file_type, processors>>
    /\ UNCHANGED curator_vars

RunDocumentAI ==
    /\ pc = "base_done"
    /\ \E i \in 1..Len(processors) : processors[i] = "document_ai"
    /\ \E r \in ParseDocument(file_type) :
          /\ ai_result' = DocumentAIProcess(r)
          /\ results' = AppendIfValid(results, ai_result')
    /\ pc' = "ai_done"
    /\ UNCHANGED <<comparison, ensemble_result, base_result, file_type, processors>>
    /\ UNCHANGED curator_vars

SkipDocumentAI ==
    /\ pc = "base_done"
    /\ \A i \in 1..Len(processors) : processors[i] # "document_ai"
    /\ pc' = "ai_done"
    /\ UNCHANGED <<results, comparison, ensemble_result, base_result, ai_result,
                   file_type, processors>>
    /\ UNCHANGED curator_vars

CombineStep ==
    /\ pc = "ai_done"
    /\ ensemble_result' = CombineResults(results)
    /\ pc' = "combined"
    /\ UNCHANGED <<results, comparison, base_result, ai_result, file_type, processors>>
    /\ UNCHANGED curator_vars

AddComparison ==
    /\ pc = "combined"
    /\ Len(results) > 1
    /\ comparison' = CompareResults(results)
    /\ ensemble_result' = [comparison |-> comparison'] @@ ensemble_result
    /\ pc' = "info"
    /\ UNCHANGED <<results, base_result, ai_result, file_type, processors>>
    /\ UNCHANGED curator_vars

SkipComparison ==
    /\ pc = "combined"
    /\ Len(results) <= 1
    /\ pc' = "info"
    /\ UNCHANGED <<results, comparison, ensemble_result, base_result, ai_result,
                   file_type, processors>>
    /\ UNCHANGED curator_vars

\* AddEnsembleInfo assigning a new dict instead of setting a key
AddEnsembleInfoOnly ==
    /\ pc = "info"
    /\ ensemble_result' =
          [ensemble_info |-> [processors_used |-> processors,
                              total_results_combined |-> Len(results)]]
    /\ pc' = "done"
    /\ UNCHANGED <<results, comparison, base_result, ai_result, file_type, processors>>
    /\ UNCHANGED curator_vars

AddEnsembleInfo ==
    /\ pc = "info"
    /\ ensemble_result' =
          [ensemble_info |-> [processors_used |-> processors,
                              total_results_combined |-> Len(results)]]
          @@ ensemble_result
    /\ pc' = "done"
    /\ UNCHANGED <<results, comparison, base_result, ai_result, file_type, processors>>
    /\ UNCHANGED curator_vars

NextProcess ==
    \/ ParseBase \/ RunDocumentAI \/ SkipDocumentAI \/ CombineStep
    \/ AddComparison \/ SkipComparison \/ AddEnsembleInfo

SpecProcess == InitProcess /\ [][NextProcess]_vars

----------------------------------------------------------------------------
(***************************************************************************)
(* Model of TextCurator (processing/curation/text_curator.py).             *)
(*                                                                         *)
(* Here a Python str is the sequence of its Unicode code points, so that   *)
(* the character classes of the regular expressions are the ranges the     *)
(* source writes (\x00-\x08 is 0..8) and len() is Len().  A length is a    *)
(* plain integer; a percentage or score rounded to two decimals is kept in *)
(* hundredths.                                                             *)
(***************************************************************************)

\* the other subsystem is not running
FusionIdle ==
    /\ results = << >>
    /\ comparison = None
    /\ ensemble_result = None
    /\ base_result = None
    /\ ai_result = None
    /\ file_type = "pdf"
    /\ processors = DefaultProcessors

\* \s of a str pattern, and the characters str.strip() removes:
\* \t \n \v \f \r, \x1c-\x1f, space, \x85, \xa0 and the Unicode spaces
Whitespace ==
    (9..13) \cup (28..31) \cup {32, 133, 160, 5760} \cup (8192..8202)
        \cup {8232, 8233, 8239, 8287, 12288}

\* [\x00-\x08\x0b-\x0c\x0e-\x1f\x7f-\x9f]
ControlChars == (0..8) \cup (11..12) \cup (14..31) \cup (127..159)

\* one character of the URL body:
\* [a-zA-Z] | [0-9] | [$-_@.&+] | [!*\\(\\),]
\* (the alternative %[0-9a-fA-F][0-9a-fA-F] only matches characters that
\* the alternatives before it match one by one)
UrlChars ==
    (97..122) \cup (65..90) \cup (48..57)
        \cup (36..95) \cup {64, 46, 38, 43}
        \cup {33, 42, 92, 40, 41, 44}

\* unicodedata.normalize('NFKC', c) for one character: U+00A0 becomes a
\* space, the ligature U+FB01 becomes "fi", U+2026 becomes "..."; the
\* ASCII characters and U+0085 are unchanged
Nfkc(c) ==
    CASE c = 160   -> <<32>>
      [] c = 64257 -> <<102, 105>>
      [] c = 8230  -> <<46, 46, 46>>
      [] OTHER     -> <<c>>

RECURSIVE Normalize(_)
\* unicodedata.normalize('NFKC', text), for texts without combining marks
Normalize(s) ==
    IF s = << >> THEN << >> ELSE Nfkc(Head(s)) \o Normalize(Tail(s))

\* the number of characters at the start of s that belong to S
LeadLen(s, S) ==
    IF \A i \in 1..Len(s) : s[i] \in S
    THEN Len(s)
    ELSE (CHOOSE i \in 1..Len(s) :
             s[i] \notin S /\ \A j \in 1..(i-1) : s[j] \in S) - 1

\* the number of characters at the end of s that belong to S
TrailLen(s, S) ==
    IF \A i \in 1..Len(s) : s[i] \in S
    THEN Len(s)
    ELSE Len(s) - (CHOOSE i \in 1..Len(s) :
                      s[i] \notin S /\ \A j \in (i+1)..Len(s) : s[j] \in S)

\* s[n:]
From(s, n) == SubSeq(s, n + 1, Len(s))

RECURSIVE SubRuns(_, _, _, _)
\* re.sub('[S]{least,}', repl, s): every maximal run of at least `least`
\* characters of S becomes repl, a shorter run stays
SubRuns(s, S, least, repl) ==
    IF s = << >> THEN << >>
    ELSE LET n == LeadLen(s, S)
         IN  IF n >= least THEN repl \o SubRuns(From(s, n), S, least, repl)
             ELSE IF n > 0 THEN SubSeq(s, 1, n) \o SubRuns(From(s, n), S, least, repl)
             ELSE <<Head(s)>> \o SubRuns(Tail(s), S, least, repl)

\* s.startswith(p)
StartsWith(s, p) == Len(s) >= Len(p) /\ SubSeq(s, 1, Len(p)) = p

\* the length of the match of  http[s]?://(...)+  at the start of s, 0 if none
UrlLen(s) ==
    LET p == IF StartsWith(s, <<104, 116, 116, 112, 115, 58, 47, 47>>) THEN 8
             ELSE IF StartsWith(s, <<104, 116, 116, 112, 58, 47, 47>>) THEN 7
             ELSE 0
        n == LeadLen(From(s, p), UrlChars)
    IN  IF p > 0 /\ n > 0 THEN p + n ELSE 0

RECURSIVE RemoveUrls(_)
\* re.sub(r'http[s]?://(?:...)+', '', text)
RemoveUrls(s) ==
    IF s = << >> THEN << >>
    ELSE IF UrlLen(s) > 0 THEN RemoveUrls(From(s, UrlLen(s)))
    ELSE <<Head(s)>> \o RemoveUrls(Tail(s))

\* the number of non-whitespace characters at the start of s
TokenLen(s) ==
    IF \A i \in 1..Len(s) : s[i] \notin Whitespace
    THEN Len(s)
    ELSE (CHOOSE i \in 1..Len(s) :
             s[i] \in Whitespace /\ \A j \in 1..(i-1) : s[j] \notin Whitespace) - 1

\* the length of the match of  \S+@\S+  at the start of s, 0 if none: both
\* \S+ are greedy, so a match runs to the end of the run of non-whitespace,
\* and there is one when an `@` (64) has a character of the run on each side
EmailLen(s) ==
    LET n == TokenLen(s)
    IN  IF \E i \in 2..(n-1) : s[i] = 64 THEN n ELSE 0

RECURSIVE RemoveEmails(_)
\* re.sub(r'\S+@\S+', '', text)
RemoveEmails(s) ==
    IF s = << >> THEN << >>
    ELSE IF EmailLen(s) > 0 THEN RemoveEmails(From(s, EmailLen(s)))
    ELSE <<Head(s)>> \o RemoveEmails(Tail(s))

\* text.strip()
Strip(s) ==
    IF LeadLen(s, Whitespace) = Len(s) THEN << >>
    ELSE SubSeq(s, LeadLen(s, Whitespace) + 1, Len(s) - TrailLen(s, Whitespace))

\* the nearest integer to a / b (b > 0), a tie going to the even one
RoundDiv(a, b) ==
    LET q == a \div b
        r == a % b
    IN  IF 2 * r > b \/ (2 * r = b /\ q % 2 = 1) THEN q + 1 ELSE q

\* round(removed / original * 100, 2) if original > 0 else 0, in hundredths
ReductionPercent(removed, original) ==
    IF original > 0 THEN RoundDiv(removed * 10000, original) ELSE 0

\* re.sub(r'\s+', ' ', text) collapsing runs of spaces only
CollapseSpacesOnly(s) == SubRuns(s, {32}, 1, <<32>>)

\* re.sub(r'\s+', ' ', text)
CollapseWhitespace(s) == SubRuns(s, Whitespace, 1, <<32>>)

\* the steps of clean_text from the normalisation to the removal of e-mail
\* addresses
BeforeBreaks(s) ==
    LET normalized  == Normalize(s)
        spaced      == CollapseWhitespace(normalized)
        printable   == SubRuns(spaced, ControlChars, 1, << >>)
        exclaimed   == SubRuns(printable, {33}, 3, <<33>>)
        questioned  == SubRuns(exclaimed, {63}, 3, <<63>>)
        dotted      == SubRuns(questioned, {46}, 4, <<46, 46, 46>>)
        without_url == RemoveUrls(dotted)
    IN  RemoveEmails(without_url)

\* re.sub(r'\n{3,}', '\n\n', text)
FewBreaks(s) == SubRuns(s, {10}, 3, <<10, 10>>)

\* the steps of clean_text between len(text) and the statistics
CleanSteps(s) == Strip(FewBreaks(BeforeBreaks(s)))

\* TextCurator.clean_text
clean_text(s) ==
    IF s = << >>
    THEN [cleaned_text |-> << >>,
          cleaning_stats |-> [original_length |-> 0,
                              cleaned_length |-> 0,
                              removed_chars |-> 0]]
    ELSE LET cleaned == CleanSteps(s)
         IN  [cleaned_text |-> cleaned,
              cleaning_stats |->
                 [original_length |-> Len(s),
                  cleaned_length |-> Len(cleaned),
                  removed_chars |-> Len(s) - Len(cleaned),
                  reduction_percent |->
                      ReductionPercent(Len(s) - Len(cleaned), Len(s))]]

\* Largest number of pieces a text to clean is made of.
MaxPieces == 3

\* "a", " ", "!!", "..", "??", "@", "\n", the control character U+0001, the
\* ligature U+FB01, " http://a ", " a@a " and "https://"
CleanPieces ==
    { <<97>>, <<32>>, <<33, 33>>, <<46, 46>>, <<63, 63>>, <<64>>, <<10>>,
      <<1>>, <<64257>>,
      <<32, 104, 116, 116, 112, 58, 47, 47, 97, 32>>,
      <<32, 97, 64, 97, 32>>,
      <<104, 116, 116, 112, 115, 58, 47, 47>> }

RECURSIVE TextsOf(_, _)
\* the texts made of at most n of the pieces
TextsOf(pieces, n) ==
    IF n = 0 THEN { << >> }
    ELSE LET shorter == TextsOf(pieces, n - 1)
         IN  shorter \cup { t \o p : t \in shorter, p \in pieces }

InitClean ==
    /\ FusionIdle
    /\ LanguageIdle
    /\ DedupIdle
    /\ raw_text \in TextsOf(CleanPieces, MaxPieces)
    /\ cleaning = None
    /\ recleaning = None
    /\ quality = None
    /\ other_text = << >>
    /\ other_quality = None
    /\ pc = "text"

\* result = curator.clean_text(text)
CleanText ==
    /\ pc = "text"
    /\ cleaning' = clean_text(raw_text)
    /\ pc' = "cleaned"
    /\ UNCHANGED <<raw_text, recleaning, quality, other_text, other_quality>>
    /\ UNCHANGED fusion_vars
    /\ UNCHANGED <<language_vars, dedup_vars>>

\* curator.clean_text(result["cleaned_text"])
CleanAgain ==
    /\ pc = "cleaned"
    /\ recleaning' = clean_text(cleaning.cleaned_text)
    /\ pc' = "recleaned"
    /\ UNCHANGED <<raw_text, cleaning, quality, other_text, other_quality>>
    /\ UNCHANGED fusion_vars
    /\ UNCHANGED <<language_vars, dedup_vars>>

NextClean == CleanText \/ CleanAgain

SpecClean == InitClean /\ [][NextClean]_vars

----------------------------------------------------------------------------
\* TextCurator.assess_quality

\* \w of a str pattern, for the characters of the model: the ASCII digits
\* and letters, the underscore and the Hangul syllables U+AC00..U+D7A3
WordChars ==
    (48..57) \cup (65..90) \cup (97..122) \cup {95} \cup (44032..55203)

\* c.lower(), for the ASCII letters and the characters without case
Lower(c) == IF c \in 65..90 THEN c + 32 ELSE c

\* a word of text.split() starts at position i
WordStart(s, i) ==
    s[i] \notin Whitespace /\ (i = 1 \/ s[i-1] \in Whitespace)

\* where the words of text.split() start
WordStarts(s) == {i \in 1..Len(s) : WordStart(s, i)}

\* the word of text.split() that starts at position i
WordAt(s, i) ==
    LET rest == From(s, i - 1)
    IN  SubSeq(rest, 1, TokenLen(rest))

RECURSIVE Counter(_, _, _)
\* Counter(text.split()), for the words that start at the positions lo..hi:
\* how often each word occurs
Counter(s, lo, hi) ==
    IF lo > hi THEN EmptyBag
    ELSE IF lo = hi
    THEN (IF WordStart(s, lo) THEN SetToBag({WordAt(s, lo)}) ELSE EmptyBag)
    ELSE Counter(s, lo, (lo + hi) \div 2) (+) Counter(s, (lo + hi) \div 2 + 1, hi)

\* max(Counter(text.split()).values()), for a text with at least one word
MaxFreq(s) ==
    LET counts == Counter(s, 1, Len(s))
        values == {counts[w] : w \in DOMAIN counts}
    IN  CHOOSE n \in values : \A m \in values : m <= n

\* text_length >= 50 without the text of exactly 50 characters
MinimumLengthAbove(text_length) == text_length > 50

\* the minimum_length filter: text_length >= 50
MinimumLength(text_length) == text_length >= 50

\* word_count >= 10 turned round
MinimumWordsAtMost(word_count) == word_count <= 10

\* the minimum_words filter: word_count >= 10
MinimumWords(word_count) == word_count >= 10

\* the filters in the order assess_quality evaluates them, each with its
\* outcome and the name it is listed under when passed and when failed;
\* the repetition filter only when the text has a word
Filters(s) ==
    LET word_count == Cardinality(WordStarts(s))
        length     == IF Len(s) > 1 THEN Len(s) ELSE 1
        unique     == Cardinality({Lower(s[i]) : i \in 1..Len(s)})
        special    == Cardinality({i \in 1..Len(s) :
                          s[i] \notin WordChars /\ s[i] \notin Whitespace})
    IN  << [ok |-> MinimumLength(Len(s)),
            pass |-> "minimum_length", fail |-> "minimum_length"],
           [ok |-> MinimumWords(word_count),
            pass |-> "minimum_words", fail |-> "minimum_words"],
           [ok |-> unique * 10 > length,
            pass |-> "char_diversity", fail |-> "char_diversity"] >>
        \o (IF word_count > 0
            THEN << [ok |-> MaxFreq(s) * 10 < 3 * word_count,
                     pass |-> "low_repetition", fail |-> "high_repetition"] >>
            ELSE << >>)
        \o << [ok |-> special * 10 < 3 * length,
               pass |-> "reasonable_special_chars",
               fail |-> "excessive_special_chars"] >>

\* passed_filters
PassedFilters(filters) ==
    LET p == SelectSeq(filters, LAMBDA f : f.ok)
    IN  [i \in 1..Len(p) |-> p[i].pass]

\* failed_filters
FailedFilters(filters) ==
    LET p == SelectSeq(filters, LAMBDA f : ~f.ok)
    IN  [i \in 1..Len(p) |-> p[i].fail]

\* char_diversity > 0.3, the condition of the diversity bonus
Diverse(s) ==
    Cardinality({Lower(s[i]) : i \in 1..Len(s)}) * 10
        > 3 * (IF Len(s) > 1 THEN Len(s) ELSE 1)

\* the bonuses of a text: 5 if word_count > 100, 5 if char_diversity > 0.3
Bonus(s) ==
    (IF Cardinality(WordStarts(s)) > 100 THEN 5 ELSE 0)
        + (IF Diverse(s) THEN 5 ELSE 0)

\* QualityScore without min(100.0, ...)
QualityScoreUncapped(passed, failed, bonus) ==
    IF passed + failed > 0
    THEN [num |-> passed * 100 + bonus * (passed + failed),
          den |-> passed + failed]
    ELSE [num |-> bonus, den |-> 1]

\* quality_score before it is rounded, as the fraction num / den:
\* passed / total * 100 if total > 0 else 0.0, plus the bonuses, at most 100
QualityScore(passed, failed, bonus) ==
    LET total == passed + failed
        num   == IF total > 0 THEN passed * 100 + bonus * total ELSE bonus
        den   == IF total > 0 THEN total ELSE 1
    IN  IF num > 100 * den THEN [num |-> 100, den |-> 1]
                           ELSE [num |-> num, den |-> den]

\* quality_metrics; the three ratios, which the code stores rounded to three
\* decimals, are kept as the exact fractions num / den
QualityMetrics(s) ==
    LET word_count == Cardinality(WordStarts(s))
        length     == IF Len(s) > 1 THEN Len(s) ELSE 1
    IN  [length |-> Len(s),
         word_count |-> word_count,
         char_count |-> Cardinality({i \in 1..Len(s) : s[i] # 32}),
         char_diversity |->
             [num |-> Cardinality({Lower(s[i]) : i \in 1..Len(s)}), den |-> length],
         special_char_ratio |->
             [num |-> Cardinality({i \in 1..Len(s) :
                          s[i] \notin WordChars /\ s[i] \notin Whitespace}),
              den |-> length]]
        @@ (IF word_count > 0
            THEN [repetition_ratio |-> [num |-> MaxFreq(s), den |-> word_count]]
            ELSE Absent)

\* TextCurator.assess_quality; quality_score is in hundredths
assess_quality(s) ==
    IF s = << >>
    THEN [quality_score |-> 0,
          quality_metrics |-> Absent,
          passed_filters |-> << >>,
          failed_filters |-> << >>]
    ELSE LET filters == Filters(s)
             passed  == PassedFilters(filters)
             failed  == FailedFilters(filters)
             score   == QualityScore(Len(passed), Len(failed), Bonus(s))
         IN  [quality_score |-> RoundDiv(score.num * 100, score.den),
              quality_metrics |-> QualityMetrics(s),
              passed_filters |-> passed,
              failed_filters |-> failed,
              is_high_quality |-> score.num >= 70 * score.den]

\* Largest number of blocks a text to assess is made of.
MaxBlocks == 2

\* n one-character words lo, lo+1, ..., each followed by a space
Spaced(lo, n) ==
    [i \in 1..(2 * n) |-> IF i % 2 = 1 THEN lo + (i - 1) \div 2 ELSE 32]

\* 31 times the word "!!!!" and then 69 different words of two Hangul
\* syllables, each followed by a space
MixedBlock ==
    [i \in 1..155 |-> IF i % 5 = 0 THEN 32 ELSE 33]
        \o [i \in 1..207 |-> IF i % 3 = 0 THEN 32
                             ELSE 44032 + 2 * ((i - 1) \div 3) + ((i - 1) % 3)]

\* "a ", " ", "!!!", "A ", nine words "a b ... i ", a hundred different
\* Hangul words, a hundred times "a ", a word of 49 letters, and MixedBlock:
\* one block short of the thresholds 10 and 100 words and 50 characters
QualityBlocks ==
    { <<97, 32>>, <<32>>, <<33, 33, 33>>, <<65, 32>>,
      Spaced(97, 9), Spaced(44032, 100),
      [i \in 1..200 |-> IF i % 2 = 1 THEN 97 ELSE 32],
      [i \in 1..49 |-> 97],
      MixedBlock }

InitQuality ==
    /\ FusionIdle
    /\ LanguageIdle
    /\ DedupIdle
    /\ raw_text \in TextsOf(QualityBlocks, MaxBlocks)
    /\ other_text \in { raw_text \o b : b \in QualityBlocks }
    /\ cleaning = None
    /\ recleaning = None
    /\ quality = None
    /\ other_quality = None
    /\ pc = "text"

\* curator.assess_quality(text)
AssessText ==
    /\ pc = "text"
    /\ quality' = assess_quality(raw_text)
    /\ pc' = "assessed"
    /\ UNCHANGED <<raw_text, cleaning, recleaning, other_text, other_quality>>
    /\ UNCHANGED fusion_vars
    /\ UNCHANGED <<language_vars, dedup_vars>>

\* curator.assess_quality(other_text), the text with a block more
AssessOther ==
    /\ pc = "assessed"
    /\ other_quality' = assess_quality(other_text)
    /\ pc' = "both"
    /\ UNCHANGED <<raw_text, cleaning, recleaning, quality, other_text>>
    /\ UNCHANGED fusion_vars
    /\ UNCHANGED <<language_vars, dedup_vars>>

NextQuality == AssessText \/ AssessOther

SpecQuality == InitQuality /\ [][NextQuality]_vars

----------------------------------------------------------------------------
\* TextCurator.detect_language and TextCurator.curate_text

\* what a call in Python left behind when it raised instead of returning
Raised(x) == "raised" \in DOMAIN x

\* what detect(text) and detect_langs(text) of langdetect can do once they are
\* called: raise LangDetectException, or return a language and a list of
\* candidates with their probabilities (in millionths), of which the first
\* need not be the language detect returned
DetectorOutcomes ==
    { [raised |-> "No features in text."],
      [detect |-> "en", detect_langs |-> <<[lang |-> "en", prob |-> 999996]>>],
      [detect |-> "en",
       detect_langs |-> <<[lang |-> "ko", prob |-> 571427],
                          [lang |-> "en", prob |-> 428571]>>],
      [detect |-> "ko",
       detect_langs |-> <<[lang |-> "ko", prob |-> 428570],
                          [lang |-> "ja", prob |-> 285714],
                          [lang |-> "zh-cn", prob |-> 142857],
                          [lang |-> "en", prob |-> 142856]>>] }

\* detect_language reaches the calls of the detector
CallsDetector(s, available) == available /\ ~(s = << >> \/ Len(s) < 10)

\* detect_language without `except Exception`
DetectLanguageUncaught(s, available, outcome) ==
    IF ~available
    THEN [language |-> "unknown", confidence |-> 0, available |-> FALSE]
    ELSE IF s = << >> \/ Len(s) < 10
    THEN [language |-> "unknown", confidence |-> 0, reason |-> "text_too_short"]
    ELSE IF Raised(outcome) THEN outcome
    ELSE [language |-> outcome.detect,
          confidence |-> RoundDiv(outcome.detect_langs[1].prob, 1000),
          all_languages |-> << >>,
          available |-> TRUE]

\* TextCurator.detect_language, `outcome` being what the detector does if it
\* is called; confidence and probability are in thousandths
detect_language(s, available, outcome) ==
    IF ~available
    THEN [language |-> "unknown", confidence |-> 0, available |-> FALSE]
    ELSE IF s = << >> \/ Len(s) < 10
    THEN [language |-> "unknown", confidence |-> 0, reason |-> "text_too_short"]
    ELSE IF Raised(outcome)
    THEN [language |-> "unknown", confidence |-> 0,
          error |-> outcome.raised, available |-> TRUE]
    ELSE LET lang_probs == outcome.detect_langs
             top        == IF Len(lang_probs) < 3 THEN Len(lang_probs) ELSE 3
         IN  [language |-> outcome.detect,
              confidence |-> IF lang_probs # << >>
                             THEN RoundDiv(lang_probs[1].prob, 1000) ELSE 0,
              all_languages |->
                  [i \in 1..top |->
                      [language |-> lang_probs[i].lang,
                       probability |-> RoundDiv(lang_probs[i].prob, 1000)]],
              available |-> TRUE]

\* curate_text assessing and detecting on the original text
CurateTextOnOriginal(s, en, available, outcome) ==
    LET cleaning_result == clean_text(s)
        lang_result     == detect_language(s, available, outcome)
    IN  [original_text |-> s,
         curated_text |-> IF en.enable_cleaning
                          THEN cleaning_result.cleaned_text ELSE s,
         curation_metadata |->
             (IF en.enable_cleaning
              THEN [cleaning |-> cleaning_result.cleaning_stats] ELSE Absent)
             @@ (IF en.enable_quality_check
                 THEN [quality |-> assess_quality(s)] ELSE Absent)
             @@ (IF en.enable_language_detection
                 THEN [language |-> lang_result] ELSE Absent)]

\* TextCurator.curate_text; an exception raised by detect_language would
\* leave curate_text too
curate_text(s, en, available, outcome) ==
    LET cleaning_result == clean_text(s)
        curated         == IF en.enable_cleaning
                           THEN cleaning_result.cleaned_text ELSE s
        lang_result     == detect_language(curated, available, outcome)
    IN  IF en.enable_language_detection /\ Raised(lang_result)
        THEN lang_result
        ELSE [original_text |-> s,
              curated_text |-> curated,
              curation_metadata |->
                  (IF en.enable_cleaning
                   THEN [cleaning |-> cleaning_result.cleaning_stats] ELSE Absent)
                  @@ (IF en.enable_quality_check
                      THEN [quality |-> assess_quality(curated)] ELSE Absent)
                  @@ (IF en.enable_language_detection
                      THEN [language |-> lang_result] ELSE Absent)]

\* "a", "aaaa", "aaaaa", five spaces and " a@a ": texts of 9, 10 and more
\* characters, some of them shorter than 10 once cleaned
CuratePieces ==
    { <<97>>, <<97, 97, 97, 97>>, <<97, 97, 97, 97, 97>>,
      <<32, 32, 32, 32, 32>>, <<32, 97, 64, 97, 32>> }

\* the three flags of curate_text
EnableFlags ==
    [enable_cleaning : BOOLEAN, enable_quality_check : BOOLEAN,
     enable_language_detection : BOOLEAN]

InitCurate ==
    /\ FusionIdle
    /\ DedupIdle
    /\ raw_text \in TextsOf(CuratePieces, MaxPieces)
    /\ cleaning = None
    /\ recleaning = None
    /\ quality = None
    /\ other_text = << >>
    /\ other_quality = None
    /\ langdetect_available \in BOOLEAN
    /\ enable \in EnableFlags
    /\ detector_outcome = None
    /\ language = None
    /\ curation = None
    /\ pc = "text"

\* curator.detect_language(text)
DetectLanguage ==
    /\ pc = "text"
    /\ \E o \in DetectorOutcomes :
          /\ detector_outcome' =
                IF CallsDetector(raw_text, langdetect_available) THEN o ELSE None
          /\ language' = detect_language(raw_text, langdetect_available, o)
    /\ pc' = "detected"
    /\ UNCHANGED <<langdetect_available, enable, curation>>
    /\ UNCHANGED <<fusion_vars, text_vars, dedup_vars>>

\* curator.curate_text(text, enable_cleaning, enable_quality_check,
\* enable_language_detection)
CurateText ==
    /\ pc = "text"
    /\ \E o \in DetectorOutcomes :
          /\ detector_outcome' =
                IF /\ enable.enable_language_detection
                   /\ CallsDetector(IF enable.enable_cleaning
                                    THEN clean_text(raw_text).cleaned_text
                                    ELSE raw_text,
                                    langdetect_available)
                THEN o ELSE None
          /\ curation' = curate_text(raw_text, enable, langdetect_available, o)
    /\ pc' = "curated"
    /\ UNCHANGED <<langdetect_available, enable, language>>
    /\ UNCHANGED <<fusion_vars, text_vars, dedup_vars>>

NextCurate == DetectLanguage \/ CurateText

SpecCurate == InitCurate /\ [][NextCurate]_vars

-----------------------------------------------------------------------------
\* TextCurator.deduplicate_texts.  A text of the list is a string; the list
\* keeps Python's order.  Indices of the fuzzy loop are Python's (from 0), so
\* texts[i] of the code is texts[i + 1] here.

MaxTexts == 3

\* Two distinct texts of 72 characters with the same MD5 digest.
CollA == "TEXTCOLLBYfGiJUETHQ4hAcKSMd5zYpgqf1YRDhkmxHkhPWptrkoyz28wnI9V0aHeAuaKnak"

CollB == "TEXTCOLLBYfGiJUETHQ4hEcKSMd5zYpgqf1YRDhkmxHkhPWptrkoyz28wnI9V0aHeAuaKnak"

DedupTexts == {"a", "a.", CollA, CollB}

\* hashlib.md5(text.encode('utf-8')).hexdigest()
Md5(t) ==
    CASE t = "a"   -> "0cc175b9c0f1b6a831c399e269772661"
      [] t = "a."  -> "9fbcccf456ef61f9ea007c417297911d"
      [] t = CollA -> "faad49866e9498fc1719f5289e7a0269"
      [] t = CollB -> "faad49866e9498fc1719f5289e7a0269"

\* self.embedding_model.encode(texts): one vector for each text.  "a." lies
\* within the threshold of "a", and CollB within the threshold of CollA.
EncodeText(t) ==
    CASE t = "a"   -> <<10, 0>>
      [] t = "a."  -> <<10, 1>>
      [] t = CollA -> <<0, 10>>
      [] t = CollB -> <<1, 10>>

Encode(ts) == [i \in 1..Len(ts) |-> EncodeText(ts[i])]

\* threshold = 0.95, as a fraction
threshold == <<19, 20>>

Dot(u, v) == u[1] * v[1] + u[2] * v[2]

\* np.dot(u, v) / (np.linalg.norm(u) * np.linalg.norm(v)) >= threshold,
\* compared on the squares; a zero vector gives nan, which is not >= threshold
SimilarityAtLeast(u, v, th) ==
    /\ Dot(u, u) * Dot(v, v) > 0
    /\ Dot(u, v) >= 0
    /\ th[2] * th[2] * Dot(u, v) * Dot(u, v)
          >= th[1] * th[1] * Dot(u, u) * Dot(v, v)

\* The state of a loop before any text is seen.
LoopStart ==
    [deduplicated |-> << >>, duplicates |-> << >>, seen |-> {}]

\* The exact loop without seen_hashes.add(text_hash).
RECURSIVE ExactLoopForgetsHashes(_, _, _)
ExactLoopForgetsHashes(ts, i, st) ==
    IF i > Len(ts) THEN st
    ELSE ExactLoopForgetsHashes(ts, i + 1,
            IF Md5(ts[i]) \notin st.seen
            THEN [st EXCEPT !.deduplicated = Append(@, ts[i])]
            ELSE [st EXCEPT !.duplicates = Append(@, ts[i])])

\* for text in texts: ... (method == "exact"), from the i-th text on
RECURSIVE ExactLoop(_, _, _)
ExactLoop(ts, i, st) ==
    IF i > Len(ts) THEN st
    ELSE ExactLoop(ts, i + 1,
            IF Md5(ts[i]) \notin st.seen
            THEN [st EXCEPT !.deduplicated = Append(@, ts[i]),
                            !.seen = @ \cup {Md5(ts[i])}]
            ELSE [st EXCEPT !.duplicates = Append(@, ts[i])])

\* The inner loop: some j, dedup_text in enumerate(deduplicated) that is not
\* in seen_indices has embeddings[j] within the threshold of embeddings[i].
IsDuplicate(emb, i, st) ==
    \E j \in 0..(Len(st.deduplicated) - 1) :
        /\ j \notin st.seen
        /\ SimilarityAtLeast(emb[i + 1], emb[j + 1], threshold)

\* for i, text in enumerate(texts): ... (method == "fuzzy"), from index i on
RECURSIVE FuzzyLoop(_, _, _, _)
FuzzyLoop(ts, emb, i, st) ==
    IF i >= Len(ts) THEN st
    ELSE FuzzyLoop(ts, emb, i + 1,
            IF i \in st.seen THEN st
            ELSE IF IsDuplicate(emb, i, st)
            THEN [st EXCEPT !.duplicates = Append(@, ts[i + 1])]
            ELSE [st EXCEPT !.deduplicated = Append(@, ts[i + 1]),
                            !.seen = @ \cup {i}])

\* The returned record with removed_count taken from the duplicates.
DedupResultRemovedKept(ts, m, st) ==
    [deduplicated_texts |-> st.deduplicated,
     original_count |-> Len(ts),
     deduplicated_count |-> Len(st.deduplicated),
     removed_count |-> Len(ts) - Len(st.duplicates),
     duplicates |-> st.duplicates,
     method |-> m]

\* The returned record of a finished loop.
DedupResult(ts, m, st) ==
    [deduplicated_texts |-> st.deduplicated,
     original_count |-> Len(ts),
     deduplicated_count |-> Len(st.deduplicated),
     removed_count |-> Len(ts) - Len(st.deduplicated),
     duplicates |-> st.duplicates,
     method |-> m]

\* deduplicate_texts(texts, method="exact") on a list that is not empty
DeduplicateExact(ts) == DedupResult(ts, "exact", ExactLoop(ts, 1, LoopStart))

\* deduplicate_texts where "fuzzy" does not test self.embedding_model.
DeduplicateFuzzyWithoutModel(ts, m, e) ==
    IF ts = << >>
    THEN [deduplicated_texts |-> << >>, original_count |-> 0,
          deduplicated_count |-> 0, removed_count |-> 0, duplicates |-> << >>]
    ELSE IF m = "exact" THEN DeduplicateExact(ts)
    ELSE IF m = "fuzzy" /\ e.available
    THEN DedupResult(ts, m, FuzzyLoop(ts, Encode(ts), 0, LoopStart))
    ELSE DeduplicateExact(ts)

\* deduplicate_texts(texts, method); e.available is
\* SENTENCE_TRANSFORMERS_AVAILABLE and e.model tells whether
\* self.embedding_model is set.
deduplicate_texts(ts, m, e) ==
    IF ts = << >>
    THEN [deduplicated_texts |-> << >>, original_count |-> 0,
          deduplicated_count |-> 0, removed_count |-> 0, duplicates |-> << >>]
    ELSE IF m = "exact" THEN DeduplicateExact(ts)
    ELSE IF m = "fuzzy" /\ e.available
    THEN IF e.model
         THEN DedupResult(ts, m, FuzzyLoop(ts, Encode(ts), 0, LoopStart))
         ELSE DeduplicateExact(ts)
    ELSE DeduplicateExact(ts)

\* The lists of at most n texts.
ListsOf(S, n) == UNION {[1..k -> S] : k \in 0..n}

\* The embedding capability: the model is loaded only when the package is.
Embeddings ==
    {[available |-> a, model |-> mo] :
        <<a, mo>> \in {<<FALSE, FALSE>>, <<TRUE, FALSE>>, <<TRUE, TRUE>>}}

Methods == {"exact", "fuzzy", "semantic"}

InitDedup ==
    /\ FusionIdle
    /\ TextIdle
    /\ LanguageIdle
    /\ texts \in ListsOf(DedupTexts, MaxTexts)
    /\ method \in Methods
    /\ embedding \in Embeddings
    /\ dedup = None
    /\ pc = "texts"

\* curator.deduplicate_texts(texts, method)
Deduplicate ==
    /\ pc = "texts"
    /\ dedup' = deduplicate_texts(texts, method, embedding)
    /\ pc' = "deduplicated"
    /\ UNCHANGED <<texts, method, embedding>>
    /\ UNCHANGED <<fusion_vars, text_vars, language_vars>>

NextDedup == Deduplicate

SpecDedup == InitDedup /\ [][NextDedup]_vars

----------------------------------------------------------------------------
\* Properties of compare_results, checked under Spec.

Compared == pc \in {"compared", "combined"} /\ comparison # None

ErrorFree(r) == "error" \notin DOMAIN r

\* C1: whenever the list given to compare_results holds at least one result
\* without `error`, best_processor is a result without `error`
\* (its metrics.has_errors is false).
C1_BestIsErrorFree ==
    (Compared /\ \E i \in 1..Len(results) : ErrorFree(results[i]))
        => comparison.best_processor.metrics.has_errors = FALSE

\* C2: when every result of a non-empty list carries `error`, best_processor
\* is the empty mapping, never one of the errored results.
C2_AllErroredBestEmpty ==
    (Compared /\ results # << >> /\ \A i \in 1..Len(results) : ~ErrorFree(results[i]))
        => comparison.best_processor = << >>

\* C3: best_processor has the maximum score of all scored engines, and among
\* the engines that share the maximum it is the first of the input list.
C3_BestIsFirstMaximum ==
    (Compared /\ results # << >>) =>
        LET metrics == comparison.comparison_metrics
            best    == comparison.best_processor
        IN  \E i \in 1..Len(metrics) :
                /\ best.metrics = metrics[i]
                /\ best.processor = metrics[i].processor
                /\ best.score = Score(metrics[i])
                /\ \A j \in 1..Len(metrics) : Score(metrics[j]) <= best.score
                /\ \A j \in 1..(i-1) : Score(metrics[j]) < best.score

\* C3 witness: two differently named engines tie on the maximum score and the
\* first one is returned.
C3_Witness ==
    /\ Compared
    /\ Len(results) = 2
    /\ LET metrics == comparison.comparison_metrics
       IN  /\ Score(metrics[1]) = Score(metrics[2])
           /\ metrics[1].processor # metrics[2].processor
           /\ metrics[1].has_errors # metrics[2].has_errors
           /\ comparison.best_processor.processor = metrics[1].processor

\* C4: in thousandths, the score of every engine is
\* text_length + 10000 if has_tables + 5000 if has_metadata - 50000 if has_errors,
\* and the score reported with best_processor is that of its own metrics.
C4_ScoreFormula ==
    (Compared /\ results # << >>) =>
        LET metrics == comparison.comparison_metrics
            best    == comparison.best_processor
            B(flag) == IF flag THEN 1 ELSE 0
            Formula(m) == m.text_length + 10000 * B(m.has_tables)
                          + 5000 * B(m.has_metadata) - 50000 * B(m.has_errors)
        IN  /\ \A i \in 1..Len(metrics) : Scored(metrics)[i].score = Formula(metrics[i])
            /\ best.score = Formula(best.metrics)

\* C4 witness: the best engine has text, tables, metadata and an error at once,
\* so every term of the formula is in its score.
C4_Witness ==
    /\ Compared
    /\ results # << >>
    /\ LET best == comparison.best_processor
       IN  /\ best.metrics.text_length = 60000
           /\ best.metrics.has_tables
           /\ best.metrics.has_metadata
           /\ best.metrics.has_errors
           /\ best.score = 25000

\* C5: an engine whose result carries `error` is named in no recommendation
\* but the error warning: not as the engine that extracted the most text, not
\* in the tables recommendation, not in the metadata recommendation.
C5_ErroredOnlyInWarning ==
    (Compared /\ results # << >>) =>
        LET metrics == comparison.comparison_metrics
            recs    == comparison.recommendations
            Failed  == {metrics[i].processor : i \in {j \in 1..Len(metrics) : metrics[j].has_errors}}
            Valid   == {metrics[i].processor : i \in {j \in 1..Len(metrics) : ~metrics[j].has_errors}}
        IN  \A k \in 1..Len(recs) :
                recs[k].kind # "errors" =>
                    \A n \in 1..Len(recs[k].processors) :
                        recs[k].processors[n] \notin Failed \ Valid

\* C6: the error warning, the tables recommendation and the metadata
\* recommendation are each present exactly when some engine meets the
\* condition, and then list exactly the engines that meet it, in input order.
C6_ConditionalRecommendations ==
    (Compared /\ results # << >>) =>
        LET metrics == comparison.comparison_metrics
            recs    == comparison.recommendations
            Meets(kind) ==
                {i \in 1..Len(results) :
                    IF kind = "errors" THEN "error" \in DOMAIN results[i]
                    ELSE IF kind = "tables"
                         THEN \/ Get(results[i], "tables", << >>) # << >>
                              \/ Get(results[i], "sheets", << >>) # << >>
                         ELSE /\ "metadata" \in DOMAIN results[i]
                              /\ DOMAIN results[i]["metadata"] # {}}
            Of(kind) == {k \in 1..Len(recs) : recs[k].kind = kind}
        IN  \A kind \in {"errors", "tables", "metadata"} :
                IF Meets(kind) = {} THEN Of(kind) = {}
                ELSE /\ Cardinality(Of(kind)) = 1
                     /\ \A k \in Of(kind) :
                          /\ Len(recs[k].processors) = Cardinality(Meets(kind))
                          /\ \A i \in Meets(kind) :
                                recs[k].processors[Cardinality({j \in Meets(kind) : j <= i})]
                                    = metrics[i].processor

\* C6 witness: two engines both have tables, one of them failed, none has
\* metadata: the tables recommendation lists both in input order, the warning
\* lists one, the metadata recommendation is missing.
C6_Witness ==
    /\ Compared
    /\ Len(results) = 2
    /\ LET recs == comparison.recommendations
       IN  /\ \E k \in 1..Len(recs) :
                 /\ recs[k].kind = "tables"
                 /\ recs[k].processors = <<"pdf_parser", "processor_1">>
           /\ \E k \in 1..Len(recs) :
                 /\ recs[k].kind = "errors"
                 /\ recs[k].processors = <<"processor_1">>
           /\ \A k \in 1..Len(recs) : recs[k].kind # "metadata"

\* C7: called with the empty list, compare_results and _combine_results each
\* return a value whose only field is `error`.
C7_EmptyListIsError ==
    /\ (Compared /\ results = << >>) => DOMAIN comparison = {"error"}
    /\ (pc = "combined" /\ results = << >>) => DOMAIN ensemble_result = {"error"}

\* C7 witness: the empty list has been compared and merged.
C7_Witness ==
    /\ pc = "combined"
    /\ results = << >>
    /\ comparison = [error |-> "No results to compare"]
    /\ ensemble_result = [error |-> "No results to combine"]

\* C9: comparison_metrics has one entry per input result, at the position of
\* the result, and its has_errors tells whether that result carries `error`.
C9_MetricPerResult ==
    (Compared /\ results # << >>) =>
        LET metrics == comparison.comparison_metrics
        IN  /\ Len(metrics) = Len(results)
            /\ \A i \in 1..Len(results) :
                  /\ metrics[i].has_errors <=> "error" \in DOMAIN results[i]
                  /\ metrics[i].processor = ProcessorName(results[i], DefaultName(i))

\* C9 witness: a failed engine stands before a successful one and both have
\* their entry.
C9_Witness ==
    /\ Compared
    /\ Len(results) = 2
    /\ ~ErrorFree(results[1])
    /\ ErrorFree(results[2])
    /\ Len(comparison.comparison_metrics) = 2
    /\ comparison.comparison_metrics[1].has_errors
    /\ ~comparison.comparison_metrics[2].has_errors

----------------------------------------------------------------------------
\* The text compare_results measures, checked under SpecExtract.

\* C8 as claimed: the measured text is `text` when non-empty, otherwise the
\* newline-joined pages[*].text when pages is non-empty, otherwise the
\* serialised sheets[*].data when sheets is non-empty, otherwise empty.
C8_TextByContainer ==
    (Compared /\ results # << >>) =>
        \A i \in 1..Len(results) :
            LET r      == results[i]
                text   == Get(r, "text", EmptyStr)
                pages  == Get(r, "pages", << >>)
                sheets == Get(r, "sheets", << >>)
                joined == Join(<<Run("\n", 1)>>,
                               [k \in 1..Len(pages) |-> Get(pages[k], "text", EmptyStr)])
                dumped == JsonDumps([k \in 1..Len(sheets) |-> Get(sheets[k], "data", << >>)])
                claimed == IF text # EmptyStr THEN text
                           ELSE IF pages # << >> THEN joined
                           ELSE IF sheets # << >> THEN dumped
                           ELSE EmptyStr
                m == comparison.comparison_metrics[i]
            IN  /\ m.text_length = StrLen(claimed)
                /\ m.word_count = WordCount(claimed)

\* C8 as amended: the measured text is `text` when non-empty, otherwise the
\* newline-joined pages[*].text when that join is non-empty, otherwise the
\* serialised sheets[*].data when sheets is non-empty, otherwise empty with
\* text_length 0 and word_count 0.
C8_TextByFirstNonEmpty ==
    (Compared /\ results # << >>) =>
        \A i \in 1..Len(results) :
            LET r      == results[i]
                text   == Get(r, "text", EmptyStr)
                pages  == Get(r, "pages", << >>)
                sheets == Get(r, "sheets", << >>)
                joined == Join(<<Run("\n", 1)>>,
                               [k \in 1..Len(pages) |-> Get(pages[k], "text", EmptyStr)])
                dumped == JsonDumps([k \in 1..Len(sheets) |-> Get(sheets[k], "data", << >>)])
                amended == IF text # EmptyStr THEN text
                           ELSE IF joined # EmptyStr THEN joined
                           ELSE IF sheets # << >> THEN dumped
                           ELSE EmptyStr
                m == comparison.comparison_metrics[i]
            IN  /\ m.text_length = StrLen(amended)
                /\ m.word_count = WordCount(amended)
                /\ (text = EmptyStr /\ pages = << >> /\ sheets = << >>)
                      => (m.text_length = 0 /\ m.word_count = 0)

\* C8 witness: a result with no text, one page whose text is empty and two
\* sheets is measured by the serialisation of its sheets.
C8_Witness ==
    /\ Compared
    /\ Len(results) = 1
    /\ "text" \notin DOMAIN results[1]
    /\ "pages" \in DOMAIN results[1]
    /\ "sheets" \in DOMAIN results[1]
    /\ results[1]["pages"] = <<[page_number |-> 1, text |-> EmptyStr]>>
    /\ Len(results[1]["sheets"]) = 2
    /\ comparison.comparison_metrics[1].text_length = 17
    /\ comparison.comparison_metrics[1].word_count = 4

----------------------------------------------------------------------------
\* EnsembleProcessor.process, checked under SpecProcess.

\* how many of the engines that ran returned a result without `error`
ValidEngineResults ==
    (IF base_result # None /\ ErrorFree(base_result) THEN 1 ELSE 0)
    + (IF ai_result # None /\ ErrorFree(ai_result) THEN 1 ELSE 0)

Merged == pc \in {"combined", "info", "done"}

\* C10 as claimed: every result merged or compared is error-free, and
\* source_results and ensemble_info.total_results_combined both equal the
\* number of error-free engine results.
C10_CountsEqualValidResults ==
    /\ Merged =>
          /\ \A i \in 1..Len(results) : ErrorFree(results[i])
          /\ "source_results" \in DOMAIN ensemble_result
          /\ ensemble_result["source_results"] = ValidEngineResults
    /\ pc = "done" =>
          ensemble_result["ensemble_info"].total_results_combined = ValidEngineResults

\* C10 as amended: every result merged or compared is error-free;
\* total_results_combined equals the number of error-free engine results, and
\* so does source_results when that number is not zero; when it is zero the
\* merged value has no source_results, it is the structured error.
C10_CountsOfValidResults ==
    /\ Merged =>
          /\ \A i \in 1..Len(results) : ErrorFree(results[i])
          /\ Len(results) = ValidEngineResults
          /\ IF ValidEngineResults > 0
             THEN ensemble_result["source_results"] = ValidEngineResults
             ELSE /\ "source_results" \notin DOMAIN ensemble_result
                  /\ "error" \in DOMAIN ensemble_result
    /\ (pc \in {"info", "done"} /\ comparison # None) =>
          \A i \in 1..Len(comparison.comparison_metrics) :
              ~comparison.comparison_metrics[i].has_errors
    /\ pc = "done" =>
          ensemble_result["ensemble_info"].total_results_combined = ValidEngineResults

\* C10 witness: the base parser failed, the DocumentAIProcessor did not, and
\* process finished with one merged result.
C10_Witness ==
    /\ pc = "done"
    /\ ~ErrorFree(base_result)
    /\ ai_result # None
    /\ ErrorFree(ai_result)
    /\ results = <<ai_result>>
    /\ ensemble_result["source_results"] = 1
    /\ ensemble_result["ensemble_info"].total_results_combined = 1

----------------------------------------------------------------------------
\* Properties of _combine_results, checked under SpecMerge.

CombinedList == pc = "combined" /\ results # << >>

\* the text of result i as the merge reads it
TextOf(i) == Get(results[i], "text", EmptyStr)

\* the results whose text is non-empty
WithText == {i \in 1..Len(results) : TextOf(i) # EmptyStr}

RECURSIVE TextStart(_)
\* the runs of combined_text that stand before the text of result i
TextStart(i) ==
    IF i = 1 THEN 0
    ELSE TextStart(i - 1)
         + (IF i - 1 \in WithText THEN Len(TextOf(i - 1)) + Len(Separator) ELSE 0)

MetadataOf(i) == Get(results[i], "metadata", Absent)

\* C12: combined_metadata has every key of the metadata of any merged result,
\* and for each key the value of the last result, in input order, that has it.
C12_LastWriteWins ==
    CombinedList =>
        LET cm == ensemble_result["combined_metadata"]
        IN  /\ DOMAIN cm = UNION {DOMAIN MetadataOf(i) : i \in 1..Len(results)}
            /\ \A i \in 1..Len(results) :
                  \A k \in DOMAIN MetadataOf(i) :
                      (\A j \in (i+1)..Len(results) : k \notin DOMAIN MetadataOf(j))
                          => cm[k] = MetadataOf(i)[k]

\* C12 witness: both results have `method`, only the first has `total_pages`.
C12_Witness ==
    /\ pc = "combined"
    /\ Len(results) = 2
    /\ MetadataOf(1) = [method |-> "PyPDF2", total_pages |-> 1]
    /\ MetadataOf(2) = [method |-> "pdfplumber"]
    /\ ensemble_result["combined_metadata"] = [method |-> "pdfplumber", total_pages |-> 1]

\* what result i contributes under two keys, the first key first
PairOf(i, k1, k2) == Get(results[i], k1, << >>) \o Get(results[i], k2, << >>)

RECURSIVE PairStart(_, _, _)
\* the number of elements results 1..i-1 contribute under the two keys
PairStart(i, k1, k2) ==
    IF i = 1 THEN 0 ELSE PairStart(i - 1, k1, k2) + Len(PairOf(i - 1, k1, k2))

\* C13: all_tables is, result after result in input order, the result's
\* tables then its sheets, and all_pages the result's pages then its slides;
\* nothing is dropped, duplicated or reordered, so each length is the sum of
\* the lengths of its parts.
C13_Concatenation ==
    CombinedList =>
        LET n == Len(results)
            Holds(all, k1, k2) ==
                /\ Len(all) = PairStart(n, k1, k2) + Len(PairOf(n, k1, k2))
                /\ \A i \in 1..n :
                      SubSeq(all, PairStart(i, k1, k2) + 1,
                                  PairStart(i, k1, k2) + Len(PairOf(i, k1, k2)))
                          = PairOf(i, k1, k2)
        IN  /\ Holds(ensemble_result["all_tables"], "tables", "sheets")
            /\ Holds(ensemble_result["all_pages"], "pages", "slides")

\* C13 witness: the first result has a sheet and a slide, the second has two
\* tables, a sheet and two pages.
C13_Witness ==
    /\ pc = "combined"
    /\ Len(results) = 2
    /\ DOMAIN results[1] = {"file_path", "sheets", "slides"}
    /\ DOMAIN results[2] = {"file_path", "tables", "sheets", "pages"}
    /\ Len(results[2]["tables"]) = 2
    /\ Len(results[2]["pages"]) = 2
    /\ ensemble_result["all_tables"]
          = results[1]["sheets"] \o results[2]["tables"] \o results[2]["sheets"]
    /\ ensemble_result["all_pages"] = results[1]["slides"] \o results[2]["pages"]

----------------------------------------------------------------------------
\* The merged value inside EnsembleProcessor.process, checked under SpecProcess.

\* C14 as claimed: once _combine_results has returned, no step of process
\* adds, removes or changes a field of the merged value.
C14_MergedNeverTouched ==
    [][Merged => ensemble_result' = ensemble_result]_vars

\* C14 as amended: once _combine_results has returned, no step of process
\* removes or changes a field of the merged value; the steps only add fields
\* (`comparison` and `ensemble_info`).
C14_MergedOnlyGrows ==
    [][Merged =>
          /\ DOMAIN ensemble_result \subseteq DOMAIN ensemble_result'
          /\ \A k \in DOMAIN ensemble_result : ensemble_result'[k] = ensemble_result[k]
          /\ DOMAIN ensemble_result' \ DOMAIN ensemble_result
                \subseteq {"comparison", "ensemble_info"}]_vars

\* C14 witness: process finished after merging two results; the merged value
\* has its merge fields and the two added ones.
C14_Witness ==
    /\ pc = "done"
    /\ Len(results) = 2
    /\ ensemble_result["source_results"] = 2
    /\ ensemble_result["combined_text"] # EmptyStr
    /\ {"comparison", "ensemble_info"} \subseteq DOMAIN ensemble_result

----------------------------------------------------------------------------
\* Properties of TextCurator.clean_text, checked under SpecClean.

Cleaned == pc \in {"cleaned", "recleaned"} /\ cleaning # None

Recleaned == pc = "recleaned" /\ recleaning # None

\* C15: clean_text applied to its own output changes nothing:
\* clean(clean(t).cleaned_text).cleaned_text = clean(t).cleaned_text for every
\* text t, a URL or an e-mail address between two spaces included.
C15_Idempotent ==
    Recleaned => recleaning.cleaned_text = cleaning.cleaned_text

\* C16: clean_text never lengthens the text: cleaned_length <= len(t),
\* removed_chars >= 0 and reduction_percent >= 0 where it is reported.
C16_NeverLonger ==
    Cleaned =>
        /\ cleaning.cleaning_stats.cleaned_length <= Len(raw_text)
        /\ cleaning.cleaning_stats.removed_chars >= 0
        /\ "reduction_percent" \in DOMAIN cleaning.cleaning_stats
              => cleaning.cleaning_stats.reduction_percent >= 0

\* C17: for every input, the empty text included, the statistics have the
\* four fields original_length, cleaned_length, removed_chars and
\* reduction_percent, removed_chars = original_length - cleaned_length, and
\* reduction_percent is 0 when original_length is 0; for the empty text the
\* cleaned text is empty and every statistic is 0.
C17_FourStats ==
    Cleaned =>
        LET stats == cleaning.cleaning_stats
        IN  /\ DOMAIN stats = {"original_length", "cleaned_length",
                               "removed_chars", "reduction_percent"}
            /\ stats.removed_chars = stats.original_length - stats.cleaned_length
            /\ stats.original_length = 0 => stats.reduction_percent = 0
            /\ raw_text = << >> =>
                  /\ cleaning.cleaned_text = << >>
                  /\ \A k \in DOMAIN stats : stats[k] = 0

----------------------------------------------------------------------------
\* Properties of TextCurator.assess_quality, checked under SpecQuality.

Assessed == pc \in {"assessed", "both"} /\ quality # None

BothAssessed == pc = "both" /\ other_quality # None

\* the elements of a list
Elements(l) == {l[i] : i \in 1..Len(l)}

\* C18: for every non-empty text, quality_score is
\* min(100, 100 * passed / (passed + failed) + 5 if word count > 100
\* + 5 if character diversity > 0.30), passed and failed counting the filters
\* evaluated, and so lies in [0, 100] (here in hundredths).
C18_ScoreFormula ==
    (Assessed /\ raw_text # << >>) =>
        LET passed == Len(quality.passed_filters)
            failed == Len(quality.failed_filters)
            plain  == passed * 10000 + Bonus(raw_text) * 100 * (passed + failed)
        IN  /\ passed + failed > 0
            /\ quality.quality_score * (passed + failed)
                  = (IF plain > 10000 * (passed + failed)
                     THEN 10000 * (passed + failed) ELSE plain)
            /\ quality.quality_score \in 0..10000

\* C18 witness: a text of more than 100 words and a diversity above 0.30
\* failed two of five filters and scored 60 + 5 + 5.
C18_Witness ==
    /\ Assessed
    /\ Cardinality(WordStarts(raw_text)) > 100
    /\ Diverse(raw_text)
    /\ Len(quality.passed_filters) = 3
    /\ Len(quality.failed_filters) = 2
    /\ quality.quality_score = 7000

\* C19: for every text, the empty text included, assess_quality returns the
\* five fields quality_score, quality_metrics, passed_filters, failed_filters
\* and is_high_quality, with is_high_quality true exactly when
\* quality_score >= 70; for the empty text the score is 0, both filter lists
\* are empty and is_high_quality is false.
C19_FiveFields ==
    Assessed =>
        /\ DOMAIN quality = {"quality_score", "quality_metrics", "passed_filters",
                             "failed_filters", "is_high_quality"}
        /\ quality.is_high_quality = (quality.quality_score >= 7000)
        /\ raw_text = << >> =>
              /\ quality.quality_score = 0
              /\ quality.passed_filters = << >>
              /\ quality.failed_filters = << >>
              /\ quality.is_high_quality = FALSE

\* the filters other than minimum_words, by the names they are listed under
OtherFilters ==
    {"minimum_length", "char_diversity", "low_repetition", "high_repetition",
     "reasonable_special_chars", "excessive_special_chars"}

\* two assessments agree on the outcome of every filter but minimum_words
\* (passed, failed, or not evaluated) and on the diversity bonus
SameButWords ==
    /\ Elements(quality.passed_filters) \cap OtherFilters
          = Elements(other_quality.passed_filters) \cap OtherFilters
    /\ Elements(quality.failed_filters) \cap OtherFilters
          = Elements(other_quality.failed_filters) \cap OtherFilters
    /\ Diverse(raw_text) = Diverse(other_text)

\* C20: of two texts whose other filters (minimum_length, char_diversity,
\* low_repetition, reasonable_special_chars) have the same outcomes and whose
\* diversity bonus is the same, the one with more words never scores lower,
\* and its minimum_words filter has not failed if the other's passed.
C20_MonotoneInWords ==
    (/\ BothAssessed
     /\ SameButWords
     /\ Cardinality(WordStarts(raw_text)) <= Cardinality(WordStarts(other_text)))
        => /\ quality.quality_score <= other_quality.quality_score
           /\ "minimum_words" \in Elements(quality.passed_filters)
                 => "minimum_words" \in Elements(other_quality.passed_filters)

\* C20 witness: with a word more the text has ten words instead of nine, the
\* other filters and the diversity bonus are as before, and minimum_words
\* passes where it failed.
C20_Witness ==
    /\ BothAssessed
    /\ SameButWords
    /\ Cardinality(WordStarts(raw_text)) = 9
    /\ Cardinality(WordStarts(other_text)) = 10
    /\ "minimum_words" \in Elements(quality.failed_filters)
    /\ "minimum_words" \in Elements(other_quality.passed_filters)
    /\ quality.quality_score < other_quality.quality_score

\* C21: for every non-empty text, minimum_length is in passed_filters if and
\* only if the text has at least 50 characters, and in failed_filters
\* otherwise; no text shorter than 50 characters has it in passed_filters.
C21_MinimumLength ==
    (Assessed /\ raw_text # << >>) =>
        /\ "minimum_length" \in Elements(quality.passed_filters)
              <=> Len(raw_text) >= 50
        /\ "minimum_length" \in Elements(quality.failed_filters)
              <=> Len(raw_text) < 50

\* C21 witness: a text of exactly 50 characters passed minimum_length, while
\* fewer than 50 of them are not spaces.
C21_Witness ==
    /\ Assessed
    /\ Len(raw_text) = 50
    /\ quality.quality_metrics.char_count < 50
    /\ "minimum_length" \in Elements(quality.passed_filters)
    /\ "minimum_length" \notin Elements(quality.failed_filters)

----------------------------------------------------------------------------
----------------------------------------------------------------------------
\* C28: in the comparison process builds from the base parser's result and
\* the DocumentAIProcessor's result, the two engines have distinct
\* identifiers in `processors` and in comparison_metrics, and
\* best_processor.processor names exactly one of the compared results.
C28_DistinctIdentifiers ==
    (pc \in {"info", "done"} /\ comparison # None /\ Len(results) = 2) =>
        /\ comparison.processors[1] # comparison.processors[2]
        /\ comparison.comparison_metrics[1].processor
              # comparison.comparison_metrics[2].processor
        /\ Cardinality({i \in 1..2 :
                comparison.comparison_metrics[i].processor
                    = comparison.best_processor.processor}) = 1

----------------------------------------------------------------------------
\* Properties of detect_language and curate_text, checked under SpecCurate.

Detected == pc = "detected" /\ language # None

Curated == pc = "curated" /\ curation # None

\* the detector was called and raised
DetectorFailed == detector_outcome # None /\ Raised(detector_outcome)

\* the working text of curate_text
WorkingText ==
    IF enable.enable_cleaning THEN clean_text(raw_text).cleaned_text ELSE raw_text

\* C22: for every text shorter than 10 characters detect_language returns
\* language `unknown`, confidence 0 and reason `text_too_short`, whether or
\* not the language-detection capability is available, and the detector is
\* not called.
C22_TooShort ==
    (Detected /\ Len(raw_text) < 10) =>
        /\ detector_outcome = None
        /\ language.language = "unknown"
        /\ language.confidence = 0
        /\ "reason" \in DOMAIN language
        /\ language.reason = "text_too_short"

\* C23: a failure of the detector does not leave detect_language or
\* curate_text: detect_language returns `unknown` with confidence 0 and an
\* error note, and the record of curate_text still has the cleaning
\* statistics and the quality assessment computed before.
C23_FailureContained ==
    /\ (Detected /\ DetectorFailed) =>
          /\ ~Raised(language)
          /\ language.language = "unknown"
          /\ language.confidence = 0
          /\ "error" \in DOMAIN language
    /\ (Curated /\ DetectorFailed) =>
          /\ ~Raised(curation)
          /\ curation.curation_metadata.language.language = "unknown"
          /\ curation.curation_metadata.language.confidence = 0
          /\ "error" \in DOMAIN curation.curation_metadata.language
          /\ enable.enable_cleaning =>
                /\ "cleaning" \in DOMAIN curation.curation_metadata
                /\ curation.curation_metadata.cleaning
                      = clean_text(raw_text).cleaning_stats
          /\ enable.enable_quality_check =>
                /\ "quality" \in DOMAIN curation.curation_metadata
                /\ curation.curation_metadata.quality = assess_quality(WorkingText)

\* C23 witness: with the three stages enabled the detector raised, and the
\* record has the cleaning statistics, the assessment and the error note.
C23_Witness ==
    /\ Curated
    /\ DetectorFailed
    /\ enable.enable_cleaning
    /\ enable.enable_quality_check
    /\ DOMAIN curation.curation_metadata = {"cleaning", "quality", "language"}
    /\ curation.curation_metadata.cleaning.removed_chars > 0
    /\ curation.curation_metadata.language.error = "No features in text."

\* C24: in curate_text the assessment and the detection are run on the
\* working text (the output of clean_text when cleaning is enabled, the
\* original text otherwise), curated_text is the working text and
\* original_text is the input, for every combination of the three flags.
C24_WorkingText ==
    Curated =>
        /\ ~Raised(curation)
        /\ curation.original_text = raw_text
        /\ curation.curated_text = WorkingText
        /\ "quality" \in DOMAIN curation.curation_metadata
              <=> enable.enable_quality_check
        /\ enable.enable_quality_check =>
              curation.curation_metadata.quality = assess_quality(WorkingText)
        /\ "language" \in DOMAIN curation.curation_metadata
              <=> enable.enable_language_detection
        /\ enable.enable_language_detection =>
              /\ detector_outcome # None
                    <=> CallsDetector(WorkingText, langdetect_available)
              /\ \E o \in DetectorOutcomes :
                    /\ detector_outcome # None => o = detector_outcome
                    /\ curation.curation_metadata.language
                          = detect_language(WorkingText, langdetect_available, o)

\* C24 witness: the text has ten characters or more and its cleaned form
\* fewer; with the three stages enabled the detection answered
\* text_too_short and the assessment counted the characters of the cleaned
\* text.
C24_Witness ==
    /\ Curated
    /\ enable.enable_cleaning
    /\ enable.enable_quality_check
    /\ enable.enable_language_detection
    /\ langdetect_available
    /\ Len(raw_text) >= 10
    /\ curation.curated_text # << >>
    /\ curation.curation_metadata.quality.quality_metrics.length
          = Len(curation.curated_text)
    /\ Len(curation.curated_text) < 10
    /\ curation.curation_metadata.language.reason = "text_too_short"

-----------------------------------------------------------------------------
\* Properties of deduplicate_texts, checked under SpecDedup.

Deduplicated == pc = "deduplicated"

\* The texts of ts at the indices of I, in the order of ts.
RECURSIVE SubAt(_, _, _)
SubAt(ts, I, i) ==
    IF i > Len(ts) THEN << >>
    ELSE (IF i \in I THEN <<ts[i]>> ELSE << >>) \o SubAt(ts, I, i + 1)

\* The indices of the texts that no earlier text of the list equals.
FirstOfText(ts) ==
    {i \in 1..Len(ts) : \A j \in 1..(i - 1) : ts[j] # ts[i]}

\* The indices of the texts whose digest no earlier text of the list has.
FirstOfDigest(ts) ==
    {i \in 1..Len(ts) : \A j \in 1..(i - 1) : Md5(ts[j]) # Md5(ts[i])}

\* How many times each text occurs in a list.
Occurrences(ts) ==
    [t \in {ts[i] : i \in 1..Len(ts)} |->
        Cardinality({i \in 1..Len(ts) : ts[i] = t})]

\* C25 as stated: with method exact the kept list is the first occurrence of
\* each distinct text, in input order, and the duplicates are all the later
\* occurrences, in input order.
C25_ExactFirstOfText ==
    (Deduplicated /\ method = "exact") =>
        /\ dedup.deduplicated_texts = SubAt(texts, FirstOfText(texts), 1)
        /\ dedup.duplicates =
              SubAt(texts, (1..Len(texts)) \ FirstOfText(texts), 1)

\* C25 amended: with method exact the kept list is the first text of each
\* distinct MD5 digest, in input order (no two kept texts have the same
\* digest), and every text whose digest an earlier text has goes to the
\* duplicates, in input order.
C25_ExactFirstOfDigest ==
    (Deduplicated /\ method = "exact") =>
        /\ dedup.deduplicated_texts = SubAt(texts, FirstOfDigest(texts), 1)
        /\ dedup.duplicates =
              SubAt(texts, (1..Len(texts)) \ FirstOfDigest(texts), 1)
        /\ \A i, j \in 1..Len(dedup.deduplicated_texts) :
              i # j => Md5(dedup.deduplicated_texts[i])
                          # Md5(dedup.deduplicated_texts[j])

\* An exact run that keeps two texts and removes a later occurrence of one.
C25_Witness ==
    /\ Deduplicated
    /\ method = "exact"
    /\ Len(dedup.deduplicated_texts) = 2
    /\ Len(dedup.duplicates) = 1
    /\ dedup.duplicates[1] = texts[1]
    /\ texts[3] = texts[1]

\* The set K of kept indices of a fuzzy run as C26 describes it: a text is
\* kept exactly when no text kept before it is within the threshold of it.
KeptAsClaimed(ts, K) ==
    \A i \in 1..Len(ts) :
        i \in K <=>
            ~ \E j \in K :
                /\ j < i
                /\ SimilarityAtLeast(EncodeText(ts[i]), EncodeText(ts[j]),
                                     threshold)

\* C26: with method fuzzy and the embedding model loaded, a text within 0.95
\* cosine similarity of an already kept text goes to the duplicates, and a
\* text below 0.95 to every kept text is kept.
C26_FuzzyClassifies ==
    (Deduplicated /\ method = "fuzzy" /\ embedding.available /\ embedding.model)
    => \E K \in SUBSET (1..Len(texts)) :
          /\ KeptAsClaimed(texts, K)
          /\ dedup.deduplicated_texts = SubAt(texts, K, 1)
          /\ dedup.duplicates = SubAt(texts, (1..Len(texts)) \ K, 1)

\* The calls that fall back: a method that is neither exact nor fuzzy, or
\* fuzzy without the package or without the loaded model.
FallsBack ==
    \/ method \notin {"exact", "fuzzy"}
    \/ method = "fuzzy" /\ ~(embedding.available /\ embedding.model)

\* C27: a call that falls back returns a result (it does not raise) with the
\* kept list and the duplicates of the exact method on the same list.
C27_FallbackIsExact ==
    (Deduplicated /\ FallsBack) =>
        /\ ~Raised(dedup)
        /\ dedup.deduplicated_texts =
              deduplicate_texts(texts, "exact", embedding).deduplicated_texts
        /\ dedup.duplicates =
              deduplicate_texts(texts, "exact", embedding).duplicates

\* A fuzzy call without the loaded model on a list with a repeated text.
C27_Witness ==
    /\ Deduplicated
    /\ method = "fuzzy"
    /\ embedding.available
    /\ ~embedding.model
    /\ Len(dedup.duplicates) >= 1
    /\ Len(dedup.deduplicated_texts) >= 2

\* C29: the result partitions the input: the counts add up, removed_count is
\* the number of duplicates, kept and duplicates together hold every text as
\* often as the input does; the empty list gives zero counts and empty lists.
C29_Partition ==
    Deduplicated =>
        /\ dedup.original_count = Len(texts)
        /\ dedup.deduplicated_count + dedup.removed_count
              = dedup.original_count
        /\ Len(dedup.duplicates) = dedup.removed_count
        /\ Len(dedup.deduplicated_texts) = dedup.deduplicated_count
        /\ Occurrences(dedup.deduplicated_texts \o dedup.duplicates)
              = Occurrences(texts)
        /\ texts = << >> =>
              /\ dedup.original_count = 0
              /\ dedup.deduplicated_count = 0
              /\ dedup.removed_count = 0
              /\ dedup.deduplicated_texts = << >>
              /\ dedup.duplicates = << >>

\* A run under an unrecognised method that removes two of three texts.
C29_Witness ==
    /\ Deduplicated
    /\ method = "semantic"
    /\ dedup.original_count = 3
    /\ dedup.deduplicated_count = 1
    /\ dedup.removed_count = 2

====
